---- MODULE Spec2Model ----
(***************************************************************************)
(* Model of graves.py: the recursive ancestry collector get_info, the      *)
(* page extractors it calls, and the module-level output step.             *)
(*                                                                         *)
(* Strings are sequences of tokens (a token is a word, " " or "/").        *)
(* Python dicts are insertion-ordered association lists.                   *)
(* A call that may raise returns [ok |-> TRUE, val |-> v] or               *)
(* [ok |-> FALSE, err |-> e].                                              *)
(***************************************************************************)
EXTENDS Integers, Sequences, FiniteSets, TLC

\* ------------------------------------------------------------------ bounds
NumIds == 3        \* identifiers served by the site: "1" .. "NumIds"
MaxEdges == 2      \* parent links on the whole site
MaxDD == 2         \* dd records of one birth/death definition list
MaxSections == 2   \* relationship sections of one page
MaxMembers == 2    \* member entries of one relationship section

Ids == 1..NumIds

\* ------------------------------------------------------- optional values
None == [some |-> FALSE]
Some(x) == [some |-> TRUE, v |-> x]

Ok(v) == [ok |-> TRUE, val |-> v]
Raise(e) == [ok |-> FALSE, err |-> e]

\* ------------------------------------------------------------------ text
Str(w) == <<w>>
SP == " "

RECURSIVE LStrip(_)
LStrip(s) == IF s # <<>> /\ Head(s) = SP THEN LStrip(Tail(s)) ELSE s

RECURSIVE RStrip(_)
RStrip(s) ==
  IF s # <<>> /\ s[Len(s)] = SP THEN RStrip(SubSeq(s, 1, Len(s) - 1)) ELSE s

\* str.strip()
Strip(s) == RStrip(LStrip(s))

\* re.sub(' +', ' ', name)
RECURSIVE CollapseSpaces(_)
CollapseSpaces(s) ==
  IF Len(s) < 2 THEN s
  ELSE IF s[1] = SP /\ s[2] = SP THEN CollapseSpaces(Tail(s))
  ELSE <<s[1]>> \o CollapseSpaces(Tail(s))

\* re.sub('VVeteran', 'Veteran', name)
FixVeteran(s) == [i \in 1..Len(s) |-> IF s[i] = "VVeteran" THEN "Veteran" ELSE s[i]]

\* str.split('/', maxsplit): the list of segments
RECURSIVE SplitSlash(_, _, _)
SplitSlash(s, maxsplit, cur) ==
  IF s = <<>> THEN <<cur>>
  ELSE IF Head(s) = "/" /\ maxsplit > 0
       THEN <<cur>> \o SplitSlash(Tail(s), maxsplit - 1, <<>>)
       ELSE SplitSlash(Tail(s), maxsplit, Append(cur, Head(s)))

\* ----------------------------------------------------------------- dicts
Pair(k, v) == [k |-> k, v |-> v]
Keys(d) == [i \in 1..Len(d) |-> d[i].k]
KeySet(d) == {d[i].k : i \in 1..Len(d)}
Has(d, k) == \E i \in 1..Len(d) : d[i].k = k
Get(d, k) == d[CHOOSE i \in 1..Len(d) : d[i].k = k].v

\* variant: an overwritten key moves to the end (delete, then insert)
PutMoveToEnd(d, k, v) ==
  LET keep == {i \in 1..Len(d) : d[i].k # k}
      rest == [j \in 1..Cardinality(keep) |->
                 d[CHOOSE i \in keep : Cardinality({h \in keep : h <= i}) = j]]
  IN  Append(rest, [k |-> k, v |-> v])

\* d[k] = v : an existing key keeps its position, a new key goes last
Put(d, k, v) ==
  IF Has(d, k)
  THEN [i \in 1..Len(d) |-> IF d[i].k = k THEN Pair(k, v) ELSE d[i]]
  ELSE Append(d, Pair(k, v))

\* d.update(e)
RECURSIVE Update(_, _)
Update(d, e) ==
  IF e = <<>> THEN d ELSE Update(Put(d, Head(e).k, Head(e).v), Tail(e))

\* ------------------------------------------------------------ page model
\* A parsed page: the set of structural elements that are present (nested in
\* the site's fixed order), the heading text, the dd records of the
\* birth/death list and the relationship sections.
MAIN == "main-wrap"
CONTENT == "content"
MEM_A == "nonfamous-mem promod on-photo"
MEM_B == "nonfamous-mem on-photo"
OVERVIEW == "section-first memorial-overview theme-bg"
COVER == "container-xl section-bio-cover"
ROW == "row flex-print-nowrap"
COL == "col-12 col-md-7 col-print-auto mt-sm-3"
H1 == "h1"
DL == "mem-events row row-cols-2 gx-2"

Elements == {MAIN, CONTENT, MEM_A, MEM_B, OVERVIEW, COVER, ROW, COL, H1, DL}

\* a.find(..).find(..)...: a find on a missing element raises, the last find
\* returns the element or None
ChainFind(present, chain) ==
  IF \E i \in 1..(Len(chain) - 1) : chain[i] \notin present
  THEN Raise("AttributeError")
  ELSE IF chain[Len(chain)] \in present THEN Ok(Some(chain[Len(chain)]))
       ELSE Ok(None)

URL == <<"http://www.findagrave.com/cgi-bin/fg.cgi?page=gr&GRid=">>

DefaultDate == <<"1", SP, "Jan", SP, "1001">>

\* ------------------------------------------------------------- extractors
\* requests.get + raise_for_status against the site `web`
Request(web, req_url) ==
  IF \E i \in DOMAIN web : req_url = URL \o Str(ToString(i))
  THEN web[CHOOSE i \in DOMAIN web : req_url = URL \o Str(ToString(i))]
  ELSE [status |-> 404, text |-> None]

\* variant: no raise_for_status, the error body is parsed like a page
get_grave_by_id_unchecked(web, base_url, id_number) ==
  LET req == Request(web, base_url \o id_number)
  IN  IF req.status = 200 THEN Ok(req.text)
      ELSE Ok([present |-> {}, h1 |-> <<>>, dds |-> <<>>, sections |-> <<>>])

get_grave_by_id(web, base_url, id_number) ==
  LET req_url == base_url \o id_number
      req == Request(web, req_url)
  IN  IF req.status = 200 THEN Ok(req.text)
      ELSE Raise("TypeError")   \* line 50 raises a str: a TypeError propagates

\* variant: a missing chain element yields the empty name
get_name_or_empty(web_data) ==
  LET h == ChainFind(web_data.present, <<MAIN, CONTENT, COVER, ROW, COL, H1>>)
  IN  IF ~h.ok \/ h.val = None THEN Ok(<<>>)
      ELSE Ok(FixVeteran(CollapseSpaces(web_data.h1)))

get_name(web_data) ==
  LET h == ChainFind(web_data.present, <<MAIN, CONTENT, COVER, ROW, COL, H1>>)
  IN  IF ~h.ok \/ h.val = None THEN Raise("AttributeError")
      ELSE Ok(FixVeteran(CollapseSpaces(web_data.h1)))

get_birth_death_records(web_data) ==
  LET chainA == <<MAIN, CONTENT, MEM_A, OVERVIEW, COVER, ROW, COL, DL>>
      chainB == <<MAIN, CONTENT, MEM_B, OVERVIEW, COVER, ROW, COL, DL>>
      a == ChainFind(web_data.present, chainA)
      b == ChainFind(web_data.present, chainB)
      section == IF a.ok THEN a ELSE b
  IN  IF ~section.ok THEN section
      ELSE IF section.val = None THEN Ok(None)
      ELSE Ok(Some(web_data.dds))

\* variant: both lookups are done before either key is stored
BirthStepBoth(birth_data, record) ==
  IF record.bDate = None \/ record.bPlace = None THEN birth_data
  ELSE Put(Put(birth_data, Str("birthdate"), Strip(record.bDate.v)),
           Str("birthplace"), Strip(record.bPlace.v))

\* one iteration of the loop of get_birth_record: the date is stored before
\* the place lookup can fail
BirthStep(birth_data, record) ==
  IF record.bDate = None THEN birth_data
  ELSE LET d1 == Put(birth_data, Str("birthdate"), Strip(record.bDate.v))
       IN  IF record.bPlace = None THEN d1
           ELSE Put(d1, Str("birthplace"), Strip(record.bPlace.v))

RECURSIVE BirthLoop(_, _)
BirthLoop(birth_data, dds) ==
  IF dds = <<>> THEN birth_data
  ELSE BirthLoop(BirthStep(birth_data, Head(dds)), Tail(dds))

get_birth_record(bio) ==
  IF bio = None THEN Raise("AttributeError")   \* bio.find_all on None
  ELSE Ok(BirthLoop(<<>>, bio.v))

DeathStep(death_data, record) ==
  IF record.dDate = None THEN death_data
  ELSE LET d1 == Put(death_data, Str("deathdate"), Strip(record.dDate.v))
       IN  IF record.dPlace = None THEN d1
           ELSE Put(d1, Str("deathplace"), Strip(record.dPlace.v))

RECURSIVE DeathLoop(_, _)
DeathLoop(death_data, dds) ==
  IF dds = <<>> THEN death_data
  ELSE DeathLoop(DeathStep(death_data, Head(dds)), Tail(dds))

get_death_record(bio) ==
  IF bio = None THEN Raise("AttributeError")
  ELSE Ok(DeathLoop(<<>>, bio.v))

\* variant: the entry replaces the label's inner mapping
AddEntryReplace(ret_dict, relationship, tmp_dict) ==
  Put(ret_dict, relationship, tmp_dict)

\* lines 96-99: the entry joins the label's inner mapping
AddEntry(ret_dict, relationship, tmp_dict) ==
  IF Has(ret_dict, relationship)
  THEN Put(ret_dict, relationship, Update(Get(ret_dict, relationship), tmp_dict))
  ELSE Put(ret_dict, relationship, tmp_dict)

\* lines 82-99: one member entry of the section `records`
MemberStep(ret_dict, records, info) ==
  IF info.h3 = None THEN Raise("AttributeError")
  ELSE IF info.href = None THEN Raise("KeyError")
  ELSE IF records.b = None THEN Raise("AttributeError")
  ELSE LET name == Strip(info.h3.v)
           url == info.href.v
           bday == IF info.bday = None THEN DefaultDate ELSE Strip(info.bday.v)
           dday == IF info.dday = None THEN DefaultDate ELSE Strip(info.dday.v)
           tmp_dict == <<Pair(name, <<Pair(Str("url"), url),
                                      Pair(Str("bday"), bday),
                                      Pair(Str("dday"), dday)>>)>>
           relationship == Strip(records.b.v)
       IN  Ok(AddEntry(ret_dict, relationship, tmp_dict))

RECURSIVE MemberLoop(_, _, _)
MemberLoop(ret_dict, records, family_recs) ==
  IF family_recs = <<>> THEN Ok(ret_dict)
  ELSE LET r == MemberStep(ret_dict, records, Head(family_recs))
       IN  IF r.ok THEN MemberLoop(r.val, records, Tail(family_recs)) ELSE r

RECURSIVE SectionLoop(_, _)
SectionLoop(ret_dict, page_info) ==
  IF page_info = <<>> THEN Ok(ret_dict)
  ELSE LET r == MemberLoop(ret_dict, Head(page_info), Head(page_info).members)
       IN  IF r.ok THEN SectionLoop(r.val, Tail(page_info)) ELSE r

parse_page_info(page_info) == SectionLoop(<<>>, page_info)

\* val['url'].split('/', 3)[2]
ParentId(val) ==
  LET segs == SplitSlash(Get(val, Str("url")), 3, <<>>)
  IN  IF Len(segs) < 3 THEN Raise("IndexError") ELSE Ok(segs[3])

\* variant: each identifier is put in front of the list
RECURSIVE ParentLoopFront(_, _)
ParentLoopFront(parent_lst, items) ==
  IF items = <<>> THEN Ok(parent_lst)
  ELSE LET r == ParentId(Head(items).v)
       IN  IF r.ok THEN ParentLoopFront(<<r.val>> \o parent_lst, Tail(items)) ELSE r

RECURSIVE ParentLoop(_, _)
ParentLoop(parent_lst, items) ==
  IF items = <<>> THEN Ok(parent_lst)
  ELSE LET r == ParentId(Head(items).v)
       IN  IF r.ok THEN ParentLoop(Append(parent_lst, r.val), Tail(items)) ELSE r

\* variant: a record with a single parent is treated as a leaf
get_next_parent_pairs(person_rec) ==
  IF Has(person_rec, Str("Parents")) /\ Len(Get(person_rec, Str("Parents"))) > 1
  THEN ParentLoop(<<>>, Get(person_rec, Str("Parents")))
  ELSE Ok(<<>>)

get_next_parent(person_rec) ==
  IF Has(person_rec, Str("Parents"))
  THEN ParentLoop(<<>>, Get(person_rec, Str("Parents")))
  ELSE Ok(<<>>)

\* variant: a same-named record is merged label by label
MergeLabels(ret_dict, name, person) ==
  IF Has(ret_dict, name)
  THEN Put(ret_dict, name, Update(Get(ret_dict, name), person))
  ELSE Put(ret_dict, name, person)

\* line 317: ret_dict.update(parents)
Merge(ret_dict, name, person) == Update(ret_dict, <<Pair(name, person)>>)

\* lines 304-318 of get_info: fetch, extract, merge, derive the next
\* identifiers.  `store` is the ret_dict after the call, also when it raises.
Body(web, rec_num, grave_url, ret_dict) ==
  LET person_info == get_grave_by_id(web, grave_url, rec_num)
      fail(e, at) == [ok |-> FALSE, err |-> e, at |-> at, store |-> ret_dict]
  IN
  IF ~person_info.ok THEN fail(person_info.err, "get_grave_by_id") ELSE
  LET soup == person_info.val
      name == get_name(soup)
  IN
  IF ~name.ok THEN fail(name.err, "get_name") ELSE
  LET b_d_records == get_birth_death_records(soup) IN
  IF ~b_d_records.ok THEN fail(b_d_records.err, "get_birth_death_records") ELSE
  LET birth == get_birth_record(b_d_records.val) IN
  IF ~birth.ok THEN fail(birth.err, "get_birth_record") ELSE
  LET death == get_death_record(b_d_records.val) IN
  IF ~death.ok THEN fail(death.err, "get_death_record") ELSE
  LET rels == parse_page_info(soup.sections) IN
  IF ~rels.ok THEN fail(rels.err, "parse_page_info") ELSE
  LET person == Update(<<Pair(Str("Birth_Info"), birth.val),
                         Pair(Str("Death_Info"), death.val)>>, rels.val)
      merged == Merge(ret_dict, name.val, person)
      next_gen == get_next_parent(person)
  IN
  IF ~next_gen.ok
  THEN [ok |-> FALSE, err |-> next_gen.err, at |-> "get_next_parent",
        store |-> merged]
  ELSE [ok |-> TRUE, store |-> merged, name |-> name.val, rec |-> person,
        next_gen |-> next_gen.val]

\* --------------------------------------------------------------- the site
VARIABLES links, scen

\* links[i]: the identifiers that page i lists as Parents, in page order.
\* scen: what is special about the site: nothing ("clean"), a page whose
\* heading renders the name of page 1 ("dup"), or one faulty page ("fault").
\* a site is drawn as a list of <<child, parent>> links
EdgeSeqs == UNION {[1..n -> Ids \X Ids] : n \in 0..MaxEdges}

RECURSIVE ParentsIn(_, _)
ParentsIn(es, i) ==
  IF es = <<>> THEN <<>>
  ELSE (IF Head(es)[1] = i THEN <<Head(es)[2]>> ELSE <<>>) \o ParentsIn(Tail(es), i)

LinkMaps == {[i \in Ids |-> ParentsIn(es, i)] : es \in EdgeSeqs}

\* the outermost and the innermost element of the name chain
NameFaults == {MAIN, H1}
Faults == {"http500", "transport", "nobio", "nodl"} \cup NameFaults

Scenarios ==
  {[kind |-> "clean"]}
  \cup {[kind |-> "dup", id |-> i] : i \in Ids \ {1}}
  \cup {[kind |-> "fault", id |-> i, fault |-> f] : i \in Ids, f \in Faults}

IdText(i) == Str(ToString(i))

RawName(sc, i) ==
  IF sc.kind = "dup" /\ sc.id = i THEN <<"Person", SP, SP, "1">>
  ELSE IF i = 2 THEN <<"VVeteran", SP, "Person", SP, SP, "2">>
  ELSE <<"Person", SP, ToString(i)>>

MemberRef(i) ==
  [h3 |-> Some(<<SP, "Person", SP, ToString(i), SP>>),
   href |-> Some(<<"/", "memorial", "/", ToString(i), "/", "person">>),
   bday |-> IF i % 2 = 1 THEN Some(<<"18", ToString(i)>>) ELSE None,
   dday |-> None]

FixtureDDs(i) ==
  <<[bDate |-> Some(<<SP, "born", ToString(i)>>),
     bPlace |-> IF i % 2 = 1 THEN Some(<<"town", ToString(i)>>) ELSE None,
     dDate |-> None, dPlace |-> None],
    [bDate |-> None, bPlace |-> None,
     dDate |-> Some(<<"died", ToString(i)>>),
     dPlace |-> Some(<<"city", ToString(i), SP>>)]>>

FixtureSections(ln, i) ==
  (IF i % 2 = 1
   THEN <<[b |-> Some(<<"Spouse">>), members |-> <<MemberRef(10 + i)>>]>>
   ELSE <<[b |-> Some(<<"Siblings", SP>>), members |-> <<MemberRef(20 + i)>>]>>)
  \o (IF ln[i] = <<>> THEN <<>>
      ELSE <<[b |-> Some(<<"Parents">>),
              members |-> [k \in 1..Len(ln[i]) |-> MemberRef(ln[i][k])]]>>)

Missing(sc, i) ==
  IF sc.kind = "fault" /\ sc.id = i
  THEN (IF sc.fault \in NameFaults THEN {sc.fault}
        ELSE IF sc.fault = "nobio" THEN {OVERVIEW}
        ELSE IF sc.fault = "nodl" THEN {DL}
        ELSE {})
  ELSE {}

FixturePage(ln, sc, i) ==
  [present |-> ({MAIN, CONTENT, IF i % 2 = 1 THEN MEM_A ELSE MEM_B,
                 OVERVIEW, COVER, ROW, COL, H1, DL} \ Missing(sc, i)),
   h1 |-> RawName(sc, i),
   dds |-> FixtureDDs(i),
   sections |-> FixtureSections(ln, i)]

\* the response of the site for each identifier; status 0 is a transport error
Site(ln, sc) ==
  [i \in Ids |->
     IF sc.kind = "fault" /\ sc.id = i /\ sc.fault = "http500"
     THEN [status |-> 500, text |-> None]
     ELSE IF sc.kind = "fault" /\ sc.id = i /\ sc.fault = "transport"
     THEN [status |-> 0, text |-> None]
     ELSE [status |-> 200, text |-> FixturePage(ln, sc, i)]]

web == Site(links, scen)

\* ---------------------------------------------------------- the traversal
VARIABLES pc, stack, grave_info, array, abort, fetchLog, mergeLog

\* pc: "start" | "collect" | "returned" | "done" | "aborted"
\* stack: the active get_info calls, innermost last
\* grave_info: the Store; array: the written output (None until written)
\* abort: the uncaught exception; fetchLog / mergeLog: the identifiers
\* requested / merged so far, in order
initial_person == IdText(1)

\* the extractor harnesses (below) own these
VARIABLES fpage, fpc, bio, birth_data, death_data, ferr
VARIABLES page_info, rpc, ret_dict

travVars == <<links, scen, pc, stack, grave_info, array, abort, fetchLog, mergeLog>>
factVars == <<fpage, fpc, bio, birth_data, death_data, ferr>>
relVars == <<page_info, rpc, ret_dict>>
vars == <<travVars, factVars, relVars>>

TravIdle ==
  /\ links = [i \in Ids |-> <<>>]
  /\ scen = [kind |-> "clean"]
  /\ pc = "off"
  /\ stack = <<>>
  /\ grave_info = <<>>
  /\ array = None
  /\ abort = None
  /\ fetchLog = <<>>
  /\ mergeLog = <<>>

FactIdle ==
  /\ fpage = None
  /\ fpc = "off"
  /\ bio = None
  /\ birth_data = None
  /\ death_data = None
  /\ ferr = None

RelIdle ==
  /\ page_info = <<>>
  /\ rpc = "off"
  /\ ret_dict = None

\* Python's recursion limit, scaled: deeper than any acyclic chain of the site
RecursionLimit == NumIds + 2

\* one get_info call: its argument, where it is ("enter": before line 304,
\* "loop": in the loop of lines 320-322), its locals parents[name] and
\* next_gen, and the part of next_gen the loop has not reached yet
Frame(rec_num) ==
  [rec_num |-> rec_num, phase |-> "enter", rec |-> <<>>, next_gen |-> <<>>,
   todo |-> <<>>]

Top == stack[Len(stack)]
SetTop(f) == [stack EXCEPT ![Len(stack)] = f]

TravInit ==
  /\ links \in LinkMaps
  /\ scen \in Scenarios
  /\ pc = "start"
  /\ stack = <<>>
  /\ grave_info = <<>>
  /\ array = None
  /\ abort = None
  /\ fetchLog = <<>>
  /\ mergeLog = <<>>
  /\ FactIdle
  /\ RelIdle

\* lines 353-355: the top-level call
Start ==
  /\ pc = "start"
  /\ pc' = "collect"
  /\ stack' = <<Frame(initial_person)>>
  /\ UNCHANGED <<links, scen, grave_info, array, abort, fetchLog, mergeLog, factVars, relVars>>

\* lines 304-318 in the innermost call
Visit ==
  /\ pc = "collect"
  /\ Top.phase = "enter"
  /\ LET r == Body(web, Top.rec_num, URL, grave_info)
     IN  /\ fetchLog' = Append(fetchLog, Top.rec_num)
         /\ grave_info' = r.store
         /\ IF r.ok
            THEN /\ stack' = SetTop([Top EXCEPT !.phase = "loop", !.rec = r.rec,
                                                !.next_gen = r.next_gen,
                                                !.todo = r.next_gen])
                 /\ mergeLog' = Append(mergeLog, Top.rec_num)
                 /\ UNCHANGED <<pc, abort>>
            ELSE /\ pc' = "aborted"
                 /\ abort' = Some([err |-> r.err, at |-> r.at, depth |-> Len(stack)])
                 /\ stack' = <<>>
                 /\ mergeLog' = IF r.at = "get_next_parent"
                                THEN Append(mergeLog, Top.rec_num) ELSE mergeLog
  /\ UNCHANGED <<links, scen, array, factVars, relVars>>

\* variant: an identifier that was already fetched is skipped
DescendUnvisited ==
  /\ pc = "collect"
  /\ Top.phase = "loop"
  /\ Top.todo # <<>>
  /\ IF \E k \in 1..Len(fetchLog) : fetchLog[k] = Head(Top.todo)
     THEN stack' = SetTop([Top EXCEPT !.todo = Tail(Top.todo)])
     ELSE stack' = Append(SetTop([Top EXCEPT !.todo = Tail(Top.todo)]),
                          Frame(Head(Top.todo)))
  /\ UNCHANGED <<links, scen, pc, abort, grave_info, array, fetchLog, mergeLog,
                 factVars, relVars>>

\* lines 319-322: the next parent of the innermost call
Descend ==
  /\ pc = "collect"
  /\ Top.phase = "loop"
  /\ Top.todo # <<>>
  /\ IF Len(stack) >= RecursionLimit
     THEN /\ pc' = "aborted"
          /\ abort' = Some([err |-> "RecursionError", at |-> "get_info",
                            depth |-> Len(stack)])
          /\ stack' = <<>>
     ELSE /\ stack' = Append(SetTop([Top EXCEPT !.todo = Tail(Top.todo)]),
                             Frame(Head(Top.todo)))
          /\ UNCHANGED <<pc, abort>>
  /\ UNCHANGED <<links, scen, grave_info, array, fetchLog, mergeLog, factVars, relVars>>

\* line 323
Return ==
  /\ pc = "collect"
  /\ Top.phase = "loop"
  /\ Top.todo = <<>>
  /\ stack' = SubSeq(stack, 1, Len(stack) - 1)
  /\ pc' = IF Len(stack) = 1 THEN "returned" ELSE pc
  /\ UNCHANGED <<links, scen, grave_info, array, abort, fetchLog, mergeLog, factVars, relVars>>

OutputArray(store) == [i \in 1..Len(store) |-> <<Pair(store[i].k, store[i].v)>>]

\* lines 357-362
Output ==
  /\ pc = "returned"
  /\ array' = Some(OutputArray(grave_info))
  /\ pc' = "done"
  /\ UNCHANGED <<links, scen, stack, grave_info, abort, fetchLog, mergeLog, factVars, relVars>>

Next == Start \/ Visit \/ Descend \/ Return \/ Output

Spec == TravInit /\ [][Next]_vars

\* line 304 as Visit performs it: an entered call issues its request
Request304 ==
  /\ pc = "collect"
  /\ Top.phase = "enter"
  /\ fetchLog' = Append(fetchLog, Top.rec_num)

\* The program is one sequential thread that keeps running: an enabled step
\* is taken.  Visit is the only action that extends fetchLog, so fairness of
\* Request304 is fairness of Visit.
FairSpec ==
  /\ Spec
  /\ WF_vars(Start \/ Descend \/ Return \/ Output)
  /\ WF_fetchLog(Request304)

\* ------------------------------------------------ the fact extractors alone
\* One page, extracted in the order of get_info lines 307-312.
Full(v) == {MAIN, CONTENT, v, OVERVIEW, COVER, ROW, COL, H1, DL}

Presences ==
  {Full(v) \ m : v \in {MEM_A, MEM_B},
                 m \in {{}} \cup {{e} : e \in Elements}}

DDShapes == [bd : BOOLEAN, bp : BOOLEAN, dd : BOOLEAN, dp : BOOLEAN]

DDOf(sh, k) ==
  [bDate |-> IF sh.bd THEN Some(<<SP, "born", ToString(k)>>) ELSE None,
   bPlace |-> IF sh.bp THEN Some(<<"town", ToString(k), SP>>) ELSE None,
   dDate |-> IF sh.dd THEN Some(<<"died", ToString(k), SP>>) ELSE None,
   dPlace |-> IF sh.dp THEN Some(<<SP, "city", ToString(k)>>) ELSE None]

FactInit ==
  /\ \E pr \in Presences, ds \in UNION {[1..n -> DDShapes] : n \in 0..MaxDD} :
       fpage = [present |-> pr, h1 |-> <<"Person", SP, SP, "1">>,
                dds |-> [k \in 1..Len(ds) |-> DDOf(ds[k], k)],
                sections |-> <<>>]
  /\ fpc = "name"
  /\ bio = None
  /\ birth_data = None
  /\ death_data = None
  /\ ferr = None
  /\ TravIdle
  /\ RelIdle

FRaise(r, at) ==
  /\ fpc' = "raised"
  /\ ferr' = Some([err |-> r.err, at |-> at])

\* line 307
FName ==
  /\ fpc = "name"
  /\ LET r == get_name(fpage)
     IN  IF r.ok THEN fpc' = "container" /\ UNCHANGED ferr
         ELSE FRaise(r, "get_name")
  /\ UNCHANGED <<fpage, bio, birth_data, death_data, travVars, relVars>>

\* line 308
FContainer ==
  /\ fpc = "container"
  /\ LET r == get_birth_death_records(fpage)
     IN  IF r.ok THEN fpc' = "birth" /\ bio' = r.val /\ UNCHANGED ferr
         ELSE FRaise(r, "get_birth_death_records") /\ UNCHANGED bio
  /\ UNCHANGED <<fpage, birth_data, death_data, travVars, relVars>>

\* line 311
FBirth ==
  /\ fpc = "birth"
  /\ LET r == get_birth_record(bio)
     IN  IF r.ok THEN fpc' = "death" /\ birth_data' = Some(r.val) /\ UNCHANGED ferr
         ELSE FRaise(r, "get_birth_record") /\ UNCHANGED birth_data
  /\ UNCHANGED <<fpage, bio, death_data, travVars, relVars>>

\* line 312
FDeath ==
  /\ fpc = "death"
  /\ LET r == get_death_record(bio)
     IN  IF r.ok THEN fpc' = "end" /\ death_data' = Some(r.val) /\ UNCHANGED ferr
         ELSE FRaise(r, "get_death_record") /\ UNCHANGED death_data
  /\ UNCHANGED <<fpage, bio, birth_data, travVars, relVars>>

FactNext == FName \/ FContainer \/ FBirth \/ FDeath

FactSpec == FactInit /\ [][FactNext]_vars

\* ------------------------------------------ the relationship extractor alone
\* a member entry is drawn by its name; which of its two dates are marked up
\* follows from its position, so that all four combinations occur
MemberShapes == {"Ann", "Bob"}

LabelShapes == {"Parents", "Spouse"}

SectionShapes ==
  [label : LabelShapes,
   members : UNION {[1..n -> MemberShapes] : n \in 0..MaxMembers}]

\* the entry at position m of section s
MemberOf(sh, s, m) ==
  LET tag == ToString(10 * s + m)
  IN  [h3 |-> Some(<<SP, sh, SP>>),
       href |-> Some(<<"/", "memorial", "/", tag, "/", sh>>),
       bday |-> IF (s + m) % 2 = 0 THEN Some(<<SP, "b", tag>>) ELSE None,
       dday |-> IF m % 2 = 1 THEN Some(<<"d", tag, SP>>) ELSE None]

SectionOf(sh, s) ==
  [b |-> Some(<<SP, sh.label, SP>>),
   members |-> [m \in 1..Len(sh.members) |-> MemberOf(sh.members[m], s, m)]]

RelInit ==
  /\ \E shs \in UNION {[1..n -> SectionShapes] : n \in 0..MaxSections} :
       page_info = [s \in 1..Len(shs) |-> SectionOf(shs[s], s)]
  /\ rpc = "in"
  /\ ret_dict = None
  /\ TravIdle
  /\ FactIdle

\* line 316: parse_page_info(content)
Parse ==
  /\ rpc = "in"
  /\ rpc' = "out"
  /\ ret_dict' = Some(parse_page_info(page_info))
  /\ UNCHANGED <<page_info, travVars, factVars>>

RelNext == Parse

RelSpec == RelInit /\ [][RelNext]_vars

\* ========================================================= properties
\* What the site is, read off `links` and `scen` (not off the code).
IdOf(t) == CHOOSE i \in Ids : IdText(i) = t
IdsOf(log) == [k \in 1..Len(log) |-> IdOf(log[k])]
Range(q) == {q[k] : k \in 1..Len(q)}
Max(S) == CHOOSE x \in S : \A y \in S : y <= x
Min(S) == CHOOSE x \in S : \A y \in S : x <= y

ParentSet(i) == Range(links[i])

RECURSIVE Closure(_)
Closure(S) ==
  LET n == S \cup UNION {ParentSet(i) : i \in S}
  IN  IF n = S THEN S ELSE Closure(n)

Reach == Closure({1})
OnCycle(i) == i \in Closure(ParentSet(i))
Acyclic == \A i \in Reach : ~OnCycle(i)
CycleReachable == \E i \in Reach : OnCycle(i)
InDegree(j) ==
  Cardinality({<<i, k>> \in Reach \X (1..MaxEdges) :
                 k <= Len(links[i]) /\ links[i][k] = j})
IsTree == Acyclic /\ \A j \in Reach : InDegree(j) <= 1

\* every reachable page is served and is a well-formed person page
FaultFree == scen.kind = "fault" => scen.id \notin Reach

\* the name each page renders
NameOf(i) ==
  IF scen.kind = "dup" /\ scen.id = i THEN <<"Person", SP, "1">>
  ELSE IF i = 2 THEN <<"Veteran", SP, "Person", SP, "2">>
  ELSE <<"Person", SP, ToString(i)>>

DistinctNames == scen.kind = "dup" => scen.id \notin Reach

RECURSIVE PreOrder(_, _)
RECURSIVE PreOrderAll(_, _)
PreOrder(i, fuel) ==
  IF fuel = 0 THEN <<>> ELSE <<i>> \o PreOrderAll(links[i], fuel - 1)
PreOrderAll(ps, fuel) ==
  IF ps = <<>> THEN <<>>
  ELSE PreOrder(Head(ps), fuel) \o PreOrderAll(Tail(ps), fuel)

IsPrefix(a, b) == Len(a) <= Len(b) /\ a = SubSeq(b, 1, Len(a))

Fetched == IdsOf(fetchLog)
Merged == IdsOf(mergeLog)
Times(i, q) == Cardinality({k \in 1..Len(q) : q[k] = i})
Returned == pc \in {"returned", "done"}

\* the record get_info builds from page i alone
RecordOf(i) == Body(web, IdText(i), URL, <<>>).rec

C2_StopRule ==
  /\ \A k \in 1..Len(stack) :
       stack[k].phase = "loop" =>
         /\ (stack[k].next_gen = <<>>) <=> ~Has(stack[k].rec, Str("Parents"))
         /\ (stack[k].next_gen = <<>>) <=> (links[IdOf(stack[k].rec_num)] = <<>>)
  /\ (Acyclic /\ FaultFree /\ Returned) => Reach \subseteq Range(Fetched)

FetchFaultIds ==
  IF scen.kind = "fault" /\ scen.fault \in {"http500", "transport"}
  THEN {scen.id} ELSE {}

NameFaultIds ==
  IF scen.kind = "fault" /\ scen.fault \in NameFaults THEN {scen.id} ELSE {}

\* C3: once the identifier whose fetch fails has been requested, the run is
\* aborted by get_grave_by_id; that request is the last one and the only one
\* for the identifier; nothing was merged for it; with the root failing the
\* Store is empty.
C3_FetchFailureAborts ==
  \A b \in FetchFaultIds :
    b \in Range(Fetched) =>
      /\ pc = "aborted"
      /\ abort.some /\ abort.v.at = "get_grave_by_id"
      /\ Fetched[Len(Fetched)] = b
      /\ Times(b, Fetched) = 1
      /\ mergeLog = SubSeq(fetchLog, 1, Len(fetchLog) - 1)
      /\ b \notin Range(Merged)
      /\ KeySet(grave_info) = {NameOf(i) : i \in Range(Merged)}
      /\ ~Has(grave_info, NameOf(b))
      /\ (b = 1 => grave_info = <<>>)
      /\ array = None

C3_Witness ==
  /\ pc = "aborted"
  /\ abort.some /\ abort.v.at = "get_grave_by_id"
  /\ Len(fetchLog) = 3
  /\ Len(grave_info) = 2

LastWith(n) == Merged[Max({k \in 1..Len(Merged) : NameOf(Merged[k]) = n})]

\* C5: the Store's keys are the names of the merged pages, one entry per
\* distinct name, and the entry under a name is the whole record of the
\* identifier merged last under that name.
C5_StoreKeyedByName ==
  /\ KeySet(grave_info) = {NameOf(i) : i \in Range(Merged)}
  /\ Len(grave_info) = Cardinality({NameOf(i) : i \in Range(Merged)})
  /\ \A e \in 1..Len(grave_info) :
       grave_info[e].v = RecordOf(LastWith(grave_info[e].k))

C5_Witness ==
  /\ scen.kind = "dup"
  /\ Merged = <<1, scen.id>>
  /\ Len(grave_info) = 1
  /\ grave_info[1].v = RecordOf(scen.id)
  /\ grave_info[1].v # RecordOf(1)

\* C6: when a cycle of parent links is reachable (and no page is faulty) the
\* top-level call never returns and the output is never written; the calls
\* nest until the interpreter's limit, by which time an identifier on a
\* cycle has been fetched more than once.
C6_CycleNeverReturns ==
  (CycleReachable /\ FaultFree) =>
    /\ ~Returned
    /\ array = None
    /\ mergeLog = fetchLog
    /\ Len(fetchLog) >= Len(stack) - 1
    /\ pc = "aborted" =>
         /\ abort.v.err = "RecursionError"
         /\ abort.v.depth = RecursionLimit
         /\ \E i \in Ids : OnCycle(i) /\ Times(i, Fetched) >= 2

C6_Witness ==
  /\ pc = "aborted"
  /\ abort.some /\ abort.v.err = "RecursionError"
  /\ links[1] = <<2>> /\ links[2] = <<1>>
  /\ Times(1, Fetched) >= 2 /\ Times(2, Fetched) >= 2

RECURSIVE FirstSeen(_, _)
FirstSeen(q, seen) ==
  IF q = <<>> THEN <<>>
  ELSE IF Head(q) \in seen THEN FirstSeen(Tail(q), seen)
  ELSE <<Head(q)>> \o FirstSeen(Tail(q), seen \cup {Head(q)})

\* C9: at normal exit the output array has one single-key object per Store
\* entry, name -> record, in the order in which the names were first merged;
\* an overwritten name keeps its first position.
C9_OutputInFirstSeenOrder ==
  pc = "done" =>
    /\ array.some
    /\ Len(array.v) = Len(grave_info)
    /\ \A k \in 1..Len(grave_info) :
         /\ Len(array.v[k]) = 1
         /\ array.v[k][1].k = grave_info[k].k
         /\ array.v[k][1].v = grave_info[k].v
    /\ [k \in 1..Len(array.v) |-> array.v[k][1].k]
         = FirstSeen([k \in 1..Len(Merged) |-> NameOf(Merged[k])], {})

C9_Witness ==
  /\ pc = "done"
  /\ scen.kind = "dup" /\ scen.id = 3
  /\ Merged = <<1, 2, 3>>
  /\ Len(array.v) = 2
  /\ array.v[1][1].k = NameOf(1)
  /\ array.v[1][1].v = RecordOf(3)

\* ---- relationship extractor
Lab(s) == Strip(page_info[s].b.v)
Nm(s, m) == Strip(page_info[s].members[m].h3.v)
Entries == {<<s, m>> \in (1..Len(page_info)) \X (1..MaxMembers) :
              m <= Len(page_info[s].members)}
Later(a, b) == a[1] > b[1] \/ (a[1] = b[1] /\ a[2] >= b[2])
LastEntry(L, n) ==
  CHOOSE a \in Entries :
    /\ Lab(a[1]) = L /\ Nm(a[1], a[2]) = n
    /\ \A b \in Entries : (Lab(b[1]) = L /\ Nm(b[1], b[2]) = n) => Later(a, b)
FieldsOf(a) ==
  LET info == page_info[a[1]].members[a[2]]
  IN  <<Pair(Str("url"), info.href.v),
        Pair(Str("bday"), IF info.bday.some THEN Strip(info.bday.v) ELSE DefaultDate),
        Pair(Str("dday"), IF info.dday.some THEN Strip(info.dday.v) ELSE DefaultDate)>>

\* C7: every member entry is found under its section's label; a label that
\* heads several sections maps to the union of their entries; within a label
\* the last entry with a name supplies that name's fields.
C7_LabelBucketsUnion ==
  (rpc = "out" /\ ret_dict.v.ok) =>
    LET R == ret_dict.v.val IN
    /\ KeySet(R) = {Lab(a[1]) : a \in Entries}
    /\ Len(R) = Cardinality(KeySet(R))
    /\ \A L \in KeySet(R) :
         /\ KeySet(Get(R, L)) = {Nm(a[1], a[2]) : a \in {b \in Entries : Lab(b[1]) = L}}
         /\ Len(Get(R, L)) = Cardinality(KeySet(Get(R, L)))
         /\ \A n \in KeySet(Get(R, L)) : Get(Get(R, L), n) = FieldsOf(LastEntry(L, n))

C7_Witness ==
  /\ rpc = "out" /\ ret_dict.v.ok
  /\ Len(page_info) = 2
  /\ Lab(1) = Lab(2)
  /\ Len(page_info[1].members) = 2 /\ Len(page_info[2].members) = 1
  /\ Nm(1, 1) # Nm(1, 2) /\ Nm(2, 1) = Nm(1, 1)
  /\ Len(ret_dict.v.val) = 1
  /\ Len(ret_dict.v.val[1].v) = 2
  /\ Get(ret_dict.v.val[1].v, Nm(1, 1)) = FieldsOf(<<2, 1>>)

\* ---- fact extractors
BirthDated == {k \in 1..Len(fpage.dds) : fpage.dds[k].bDate.some}
BirthBoth == {k \in BirthDated : fpage.dds[k].bPlace.some}
DeathDated == {k \in 1..Len(fpage.dds) : fpage.dds[k].dDate.some}
DeathBoth == {k \in DeathDated : fpage.dds[k].dPlace.some}

\* C8: get_birth_record and get_death_record never raise on what
\* get_birth_death_records returned, the None container included, and a
\* marked element that no child has leaves its key out of the result.
C8_FactsNeverRaise ==
  /\ ferr.some => ferr.v.at \notin {"get_birth_record", "get_death_record"}
  /\ birth_data.some =>
       /\ (\A k \in 1..Len(fpage.dds) : ~fpage.dds[k].bDate.some)
            => ~Has(birth_data.v, Str("birthdate"))
       /\ (\A k \in 1..Len(fpage.dds) : ~fpage.dds[k].bPlace.some)
            => ~Has(birth_data.v, Str("birthplace"))
  /\ death_data.some =>
       /\ (\A k \in 1..Len(fpage.dds) : ~fpage.dds[k].dDate.some)
            => ~Has(death_data.v, Str("deathdate"))
       /\ (\A k \in 1..Len(fpage.dds) : ~fpage.dds[k].dPlace.some)
            => ~Has(death_data.v, Str("deathplace"))

\* C10 as stated: both keys come from the first child in which the date and
\* the place both resolve, and no other child contributes.
C10_FirstFullChild ==
  /\ birth_data.some =>
       birth_data.v =
         IF BirthBoth = {} THEN <<>>
         ELSE <<Pair(Str("birthdate"), Strip(fpage.dds[Min(BirthBoth)].bDate.v)),
                Pair(Str("birthplace"), Strip(fpage.dds[Min(BirthBoth)].bPlace.v))>>
  /\ death_data.some =>
       death_data.v =
         IF DeathBoth = {} THEN <<>>
         ELSE <<Pair(Str("deathdate"), Strip(fpage.dds[Min(DeathBoth)].dDate.v)),
                Pair(Str("deathplace"), Strip(fpage.dds[Min(DeathBoth)].dPlace.v))>>

\* C10 (amended): every child is scanned and the last assignment of a key
\* stands: the date is that of the last child whose date element resolves,
\* the place that of the last child in which both resolve; a child with
\* only the place contributes nothing.
C10_LastAssignmentStands ==
  /\ birth_data.some =>
       /\ KeySet(birth_data.v) =
            {Str("birthdate") : k \in BirthDated} \cup {Str("birthplace") : k \in BirthBoth}
       /\ BirthDated # {} =>
            Get(birth_data.v, Str("birthdate")) = Strip(fpage.dds[Max(BirthDated)].bDate.v)
       /\ BirthBoth # {} =>
            Get(birth_data.v, Str("birthplace")) = Strip(fpage.dds[Max(BirthBoth)].bPlace.v)
  /\ death_data.some =>
       /\ KeySet(death_data.v) =
            {Str("deathdate") : k \in DeathDated} \cup {Str("deathplace") : k \in DeathBoth}
       /\ DeathDated # {} =>
            Get(death_data.v, Str("deathdate")) = Strip(fpage.dds[Max(DeathDated)].dDate.v)
       /\ DeathBoth # {} =>
            Get(death_data.v, Str("deathplace")) = Strip(fpage.dds[Max(DeathBoth)].dPlace.v)

C10_Witness ==
  /\ fpc = "end"
  /\ Len(fpage.dds) = 2
  /\ BirthBoth = {1} /\ BirthDated = {1, 2}
  /\ Get(birth_data.v, Str("birthdate")) = <<"born", "2">>
  /\ Get(birth_data.v, Str("birthplace")) = <<"town", "1">>
  /\ DeathBoth = {1, 2}
  /\ Get(death_data.v, Str("deathplace")) = <<"city", "2">>

====
